---- MODULE Spec2Model ----
(***************************************************************************)
(* A model of src/keyword_finder_agent.py: the top-level script (two model *)
(* invocation blocks, the second one followed by validation, the post scan *)
(* and the dashboard POST) and the functions it defines.                   *)
(*                                                                         *)
(* Representation.                                                         *)
(*  - A Python value is a record [t |-> tag, v |-> payload]; a dict's      *)
(*    payload is a function from its keys, a list's payload a sequence.    *)
(*  - A text (a model reply, the user message, one of its lines) is a      *)
(*    sequence of tokens.  A token is a brace, a bracket, the literal      *)
(*    null, a prose word, a blank, a line break, a "..."/"---" marker, or  *)
(*    an "obj" token: the text of one well-formed, non-empty JSON object   *)
(*    written on one line, which therefore starts with '{' and ends with   *)
(*    '}'; the token carries the dict it denotes.                          *)
(*  - A number computed by the metrics functions is an exact fraction in   *)
(*    lowest terms (Python computes the same quotient in floating point).  *)
(*  - Inputs keep the types the functions declare (posts: List[dict] with  *)
(*    integer ids and view counts, post_ids: List[int]) except where the   *)
(*    code itself tests the type: the parsed reply may be any JSON value   *)
(*    and an element of post_types need not be a mapping.                  *)
(***************************************************************************)
EXTENDS Integers, Sequences, FiniteSets, TLC

VARIABLES
  pc,             \* position of the script
  user_msg,       \* the text sent to the model and scanned for posts
  response,       \* module-level name `response`: bound or not, and its text
  processed_data, \* module-level name `processed_data`
  validated,      \* outcome of validate_response in the main block
  raw_posts,      \* module-level name `raw_posts`
  payload,        \* the JSON body built by send_to_xano
  outcome,        \* what requests.post did
  xano_response,  \* module-level name `xano_response`
  posted,         \* number of requests.post calls so far
  log,            \* what was printed, in order
  calls,          \* number of camel_agent.step invocations so far
  fn,             \* function applied in isolation (function specification)
  arg,            \* its arguments
  res             \* its result

vars == <<pc, user_msg, response, processed_data, validated, raw_posts, payload,
          outcome, xano_response, posted, log, calls, fn, arg, res>>

pipeVars == <<pc, user_msg, response, processed_data, validated, raw_posts,
              payload, outcome, xano_response, posted, log, calls>>

fnVars == <<fn, arg, res>>

-----------------------------------------------------------------------------
(* Python values *)

PyNone == [t |-> "none", v |-> 0]

PyInt(n) == [t |-> "int", v |-> n]

PyStr(s) == [t |-> "str", v |-> s]

PyBool(b) == [t |-> "bool", v |-> b]

PyList(items) == [t |-> "list", v |-> items]

PyDict(d) == [t |-> "dict", v |-> d]

\* A name that has not been assigned yet.
Unset == [t |-> "unset", v |-> 0]

EmptyDict == PyDict(<<>>)

IsDict(x) == x.t = "dict"

IsList(x) == x.t = "list"

HasKey(x, k) == k \in DOMAIN x.v

\* Python truth value of `x` (None, empty containers, 0 and False are falsy).
Truthy(x) ==
  CASE x.t = "none" -> FALSE
    [] x.t = "dict" -> DOMAIN x.v # {}
    [] x.t = "list" -> Len(x.v) > 0
    [] x.t = "str"  -> x.v # ""
    [] x.t = "int"  -> x.v # 0
    [] x.t = "bool" -> x.v
    [] OTHER -> FALSE

-----------------------------------------------------------------------------
(* Texts *)

Tok(c) == [c |-> c, b |-> PyNone]

ObjTok(d) == [c |-> "obj", b |-> d]

LB == Tok("{")
RB == Tok("}")
LK == Tok("[")
RK == Tok("]")
NUL == Tok("null")
WORD == Tok("w")
SP == Tok(" ")
NL == Tok("nl")
DOTS == Tok("...")

IsSpace(tk) == tk.c \in {" ", "nl"}

\* The token's text contains a '{' (an obj token starts with one).
HasOpen(tk) == tk.c \in {"{", "obj"}

\* The token's text contains a '}' (an obj token ends with one).
HasClose(tk) == tk.c \in {"}", "obj"}

RECURSIVE FilterSpace(_)
FilterSpace(s) ==
  IF s = <<>> THEN <<>>
  ELSE IF IsSpace(Head(s)) THEN FilterSpace(Tail(s))
       ELSE <<Head(s)>> \o FilterSpace(Tail(s))

\* json.loads on a text without blanks: a value spans the whole text.
\* Grammar over the tokens: null | obj | {} | [] | [ value ].
RECURSIVE ParseValue(_)
ParseValue(s) ==
  IF Len(s) = 0 THEN [ok |-> FALSE, val |-> PyNone]
  ELSE IF Len(s) = 1 THEN
    IF s[1].c = "null" THEN [ok |-> TRUE, val |-> PyNone]
    ELSE IF s[1].c = "obj" THEN [ok |-> TRUE, val |-> s[1].b]
    ELSE [ok |-> FALSE, val |-> PyNone]
  ELSE IF s[1].c = "{" /\ s[Len(s)].c = "}" /\ Len(s) = 2
    THEN [ok |-> TRUE, val |-> EmptyDict]
  ELSE IF s[1].c = "[" /\ s[Len(s)].c = "]" THEN
    IF Len(s) = 2 THEN [ok |-> TRUE, val |-> PyList(<<>>)]
    ELSE LET inner == ParseValue(SubSeq(s, 2, Len(s) - 1))
         IN IF inner.ok THEN [ok |-> TRUE, val |-> PyList(<<inner.val>>)]
            ELSE [ok |-> FALSE, val |-> PyNone]
  ELSE [ok |-> FALSE, val |-> PyNone]

\* json.loads(text): blanks between tokens are insignificant; ok = FALSE
\* stands for json.JSONDecodeError.
json_loads(text) == ParseValue(FilterSpace(text))

Opens(text) == {i \in 1..Len(text) : HasOpen(text[i])}

Closes(text) == {i \in 1..Len(text) : HasClose(text[i])}

MinOf(S) == CHOOSE i \in S : \A j \in S : i <= j

MaxOf(S) == CHOOSE i \in S : \A j \in S : j <= i

\* re.search(r'\{.*\}', text, re.DOTALL): the leftmost '{' and, greedily, the
\* last '}' after it.  found = FALSE when no '}' follows any '{'.
re_search_braces(text) ==
  IF Opens(text) = {} \/ Closes(text) = {} THEN [found |-> FALSE, group |-> <<>>]
  ELSE LET i == MinOf(Opens(text))
           j == MaxOf(Closes(text))
       IN IF j > i \/ (j = i /\ text[i].c = "obj")
          THEN [found |-> TRUE, group |-> SubSeq(text, i, j)]
          ELSE [found |-> FALSE, group |-> <<>>]

\* process_response without the brace search of lines 112-118.
process_response_strict(response_text) ==
  LET whole == json_loads(response_text)
  IN IF whole.ok
     THEN [ret |-> whole.val, out |-> <<"DEBUG: CAMEL Response">>]
     ELSE [ret |-> PyNone,
           out |-> <<"DEBUG: CAMEL Response", "Error parsing response">>]

\* process_response(response_text): the returned value and what it printed.
process_response(response_text) ==
  LET whole == json_loads(response_text)
      m == re_search_braces(response_text)
      sub == json_loads(m.group)
  IN IF whole.ok
     THEN [ret |-> whole.val, out |-> <<"DEBUG: CAMEL Response">>]
     ELSE IF m.found /\ sub.ok
     THEN [ret |-> sub.val,
           out |-> <<"DEBUG: CAMEL Response", "Error parsing response">>]
     ELSE IF m.found
     THEN [ret |-> PyNone,
           out |-> <<"DEBUG: CAMEL Response", "Error parsing response",
                     "Failed to extract JSON">>]
     ELSE [ret |-> PyNone,
           out |-> <<"DEBUG: CAMEL Response", "Error parsing response">>]

-----------------------------------------------------------------------------
(* validate_response *)

required_keys == {"content_type", "content_type_description", "post_ids"}

\* One iteration of the loop over data['post_types'], lines 252-256.
\*  - `key in post_type` raises TypeError when post_type is a number, a
\*    boolean or None; for a string or a list it is a substring / membership
\*    test, false for the required keys, and set(post_type.keys()) then
\*    raises AttributeError.  Either way the call raises.
\*  - for a mapping it is key membership.
check_post_type(post_type) ==
  IF ~IsDict(post_type) THEN [st |-> "raise", missing |-> {}]
  ELSE IF required_keys \subseteq DOMAIN post_type.v
       THEN [st |-> "pass", missing |-> {}]
       ELSE [st |-> "fail", missing |-> required_keys \ DOMAIN post_type.v]

\* The loop: the first element that does not pass decides.
RECURSIVE check_post_types(_)
check_post_types(items) ==
  IF items = <<>> THEN [st |-> "pass", missing |-> {}]
  ELSE LET r == check_post_type(Head(items))
       IN IF r.st = "pass" THEN check_post_types(Tail(items)) ELSE r

\* validate_response(data): ret is "True", "False" or "raise" (an exception
\* leaves the function); out is the line it printed, missing the key set
\* named in that line.
validate_response(data) ==
  IF ~IsDict(data)
  THEN [ret |-> "False", out |-> "Response is not a dictionary", missing |-> {}]
  ELSE IF ~HasKey(data, "post_types")
  THEN [ret |-> "False", out |-> "Response missing 'post_types' key", missing |-> {}]
  ELSE IF ~IsList(data.v.post_types)
  THEN [ret |-> "False", out |-> "'post_types' is not a list", missing |-> {}]
  ELSE LET r == check_post_types(data.v.post_types.v)
       IN CASE r.st = "pass" -> [ret |-> "True", out |-> "", missing |-> {}]
            [] r.st = "fail" -> [ret |-> "False",
                                 out |-> "Post type missing required keys",
                                 missing |-> r.missing]
            [] OTHER -> [ret |-> "raise", out |-> "", missing |-> {}]

-----------------------------------------------------------------------------
(* Metrics *)

RECURSIVE GCD(_, _)
GCD(a, b) == IF b = 0 THEN a ELSE GCD(b, a % b)

\* The quotient n / d (n >= 0, d > 0) in lowest terms.
Frac(n, d) == LET g == GCD(n, d) IN [num |-> n \div g, den |-> d \div g]

Zero == [num |-> 0, den |-> 1]

RECURSIVE SumSeq(_)
SumSeq(s) == IF s = <<>> THEN 0 ELSE Head(s) + SumSeq(Tail(s))

RECURSIVE MaxSeq(_)
MaxSeq(s) ==
  IF Len(s) = 1 THEN s[1]
  ELSE LET m == MaxSeq(Tail(s)) IN IF Head(s) >= m THEN Head(s) ELSE m

\* statistics.mean(views), views not empty.
mean(views) == Frac(SumSeq(views), Len(views))

\* x in post_ids
InList(x, post_ids) == \E i \in 1..Len(post_ids) : post_ids[i] = x

\* [p for p in posts if p['id'] in post_ids]
RECURSIVE relevant_posts(_, _)
relevant_posts(posts, post_ids) ==
  IF posts = <<>> THEN <<>>
  ELSE IF InList(Head(posts).v.id, post_ids)
       THEN <<Head(posts)>> \o relevant_posts(Tail(posts), post_ids)
       ELSE relevant_posts(Tail(posts), post_ids)

\* p.get('viewCount', 1)
get_viewCount_default_one(p) == IF HasKey(p, "viewCount") THEN p.v.viewCount ELSE 1

\* p.get('viewCount', 0)
get_viewCount(p) == IF HasKey(p, "viewCount") THEN p.v.viewCount ELSE 0

\* [p.get('viewCount', 0) for p in relevant_posts]
view_counts(posts, post_ids) ==
  LET rel == relevant_posts(posts, post_ids)
  IN [i \in 1..Len(rel) |-> get_viewCount(rel[i])]

\* (max(views) - avg_views) / avg_views if avg_views > 0 else 0
outlier_of(views) ==
  IF SumSeq(views) > 0
  THEN Frac(MaxSeq(views) * Len(views) - SumSeq(views), SumSeq(views))
  ELSE Zero

calculate_average_views(posts, post_ids) ==
  LET views == view_counts(posts, post_ids)
  IN IF views # <<>> THEN mean(views) ELSE Zero

calculate_outlier_score(posts, post_ids) ==
  LET views == view_counts(posts, post_ids)
  IN IF views # <<>> THEN outlier_of(views) ELSE Zero

\* calculate_metrics(posts, post_ids): it reads p['nb_views'], which raises
\* KeyError for a relevant post without that key.
calculate_metrics(posts, post_ids) ==
  LET rel == relevant_posts(posts, post_ids)
      views == [i \in 1..Len(rel) |->
                  IF HasKey(rel[i], "nb_views") THEN rel[i].v.nb_views ELSE 0]
  IN IF \E i \in 1..Len(rel) : ~HasKey(rel[i], "nb_views")
     THEN [raised |-> TRUE, avg |-> Zero, outlier |-> Zero]
     ELSE IF views = <<>>
     THEN [raised |-> FALSE, avg |-> Zero, outlier |-> Zero]
     ELSE [raised |-> FALSE, avg |-> mean(views), outlier |-> outlier_of(views)]

-----------------------------------------------------------------------------
(* parse_raw_posts *)

RECURSIVE lstrip(_)
lstrip(s) == IF s # <<>> /\ IsSpace(Head(s)) THEN lstrip(Tail(s)) ELSE s

RECURSIVE rstrip(_)
rstrip(s) ==
  IF s # <<>> /\ IsSpace(s[Len(s)]) THEN rstrip(SubSeq(s, 1, Len(s) - 1)) ELSE s

\* str.strip()
strip(s) == rstrip(lstrip(s))

\* str.split('\n'): the sequence of lines of a text.
RECURSIVE split_lines(_, _)
split_lines(s, cur) ==
  IF s = <<>> THEN <<cur>>
  ELSE IF Head(s).c = "nl" THEN <<cur>> \o split_lines(Tail(s), <<>>)
       ELSE split_lines(Tail(s), Append(cur, Head(s)))

\* The body of the loop, lines 159-179, for one line: the posts it appends.
parse_line(raw_line) ==
  LET line == strip(raw_line)
      post == json_loads(line)
  IN IF line = <<>> \/ line[1].c = "..." THEN <<>>
     ELSE IF HasOpen(line[1]) /\ post.ok /\ IsDict(post.val)
             /\ HasKey(post.val, "id")
          THEN <<post.val>>
          ELSE <<>>

RECURSIVE parse_lines(_)
parse_lines(lines) ==
  IF lines = <<>> THEN <<>>
  ELSE parse_line(Head(lines)) \o parse_lines(Tail(lines))

\* parse_raw_posts(user_msg)
parse_raw_posts(msg) == parse_lines(split_lines(strip(msg), <<>>))

-----------------------------------------------------------------------------
(* send_to_xano *)

\* processed_data.get('post_types', []), a list once the reply is validated
get_post_types(data) ==
  IF HasKey(data, "post_types") THEN data.v.post_types.v ELSE <<>>

\* build_payload with slot 2 read from content_types[-1].
build_payload_last(content_types, posts) ==
  LET n == Len(content_types)
  IN [content_type_1_name |->
        IF n > 0 THEN content_types[1].v.content_type ELSE "",
      content_type_1_description |->
        IF n > 0 THEN content_types[1].v.content_type_description ELSE "",
      content_type_1_av_views |->
        IF n > 0
        THEN calculate_average_views(posts, content_types[1].v.post_ids) ELSE Zero,
      content_type_1_outlier_score |->
        IF n > 0
        THEN calculate_outlier_score(posts, content_types[1].v.post_ids) ELSE Zero,
      content_type_2_name |->
        IF n > 1 THEN content_types[n].v.content_type ELSE "",
      content_type_2_description |->
        IF n > 1 THEN content_types[n].v.content_type_description ELSE "",
      content_type_2_av_views |->
        IF n > 1
        THEN calculate_average_views(posts, content_types[n].v.post_ids) ELSE Zero,
      content_type_2_outlier_score |->
        IF n > 1
        THEN calculate_outlier_score(posts, content_types[n].v.post_ids) ELSE Zero]

\* Lines 194-203: the payload built from the content types and the catalog.
build_payload(content_types, posts) ==
  [content_type_1_name |->
     IF Len(content_types) > 0 THEN content_types[1].v.content_type ELSE "",
   content_type_1_description |->
     IF Len(content_types) > 0
     THEN content_types[1].v.content_type_description ELSE "",
   content_type_1_av_views |->
     IF Len(content_types) > 0
     THEN calculate_average_views(posts, content_types[1].v.post_ids) ELSE Zero,
   content_type_1_outlier_score |->
     IF Len(content_types) > 0
     THEN calculate_outlier_score(posts, content_types[1].v.post_ids) ELSE Zero,
   content_type_2_name |->
     IF Len(content_types) > 1 THEN content_types[2].v.content_type ELSE "",
   content_type_2_description |->
     IF Len(content_types) > 1
     THEN content_types[2].v.content_type_description ELSE "",
   content_type_2_av_views |->
     IF Len(content_types) > 1
     THEN calculate_average_views(posts, content_types[2].v.post_ids) ELSE Zero,
   content_type_2_outlier_score |->
     IF Len(content_types) > 1
     THEN calculate_outlier_score(posts, content_types[2].v.post_ids) ELSE Zero]

\* What requests.post can do: raise a RequestException (no connection, a
\* timeout), or return a response with a status; the body of a response is
\* JSON or not.
HttpOutcomes ==
  {[kind |-> "transport_error", json |-> FALSE]}
    \cup {[kind |-> k, json |-> j] :
            k \in {"status_2xx", "status_3xx", "status_4xx", "status_5xx"},
            j \in BOOLEAN}

\* post_result with `except requests.exceptions.HTTPError` at line 220: a
\* transport error leaves send_to_xano as an exception.
post_result_http_only(o) ==
  IF o.kind = "transport_error"
  THEN [ret |-> FALSE, raised |-> TRUE, out |-> <<>>]
  ELSE LET body == IF o.json THEN "XANO Response Content" ELSE "Raw response text"
       IN IF o.kind \in {"status_2xx", "status_3xx"}
          THEN [ret |-> TRUE, raised |-> FALSE,
                out |-> <<"XANO Response Status", body>>]
          ELSE [ret |-> FALSE, raised |-> FALSE,
                out |-> <<"XANO Response Status", body, "Error sending to XANO">>]

\* Lines 209-222 for one outcome of requests.post: the value returned and
\* what is printed.  response.json() failing is caught at line 215;
\* raise_for_status() raises HTTPError, a RequestException, for 4xx and 5xx
\* and for no other status.
post_result(o) ==
  IF o.kind = "transport_error"
  THEN [ret |-> FALSE, raised |-> FALSE, out |-> <<"Error sending to XANO">>]
  ELSE LET body == IF o.json THEN "XANO Response Content" ELSE "Raw response text"
       IN IF o.kind \in {"status_2xx", "status_3xx"}
          THEN [ret |-> TRUE, raised |-> FALSE,
                out |-> <<"XANO Response Status", body>>]
          ELSE [ret |-> FALSE, raised |-> FALSE,
                out |-> <<"XANO Response Status", body, "Error sending to XANO">>]

-----------------------------------------------------------------------------
(* Inputs of the script *)

ContentType(name, desc, ids) ==
  PyDict([content_type |-> name, content_type_description |-> desc,
          post_ids |-> ids])

CT_A == ContentType("A", "about A", <<1, 2>>)
CT_B == ContentType("B", "about B", <<3>>)
CT_C == ContentType("C", "about C", <<1>>)

\* A post-type entry without post_ids.
CT_NoIds == PyDict([content_type |-> "A", content_type_description |-> "about A"])

\* A post-type entry with only a name.
CT_NameOnly == PyDict([content_type |-> "A"])

PostTypes(items) == PyDict([post_types |-> PyList(items)])

Post(id, views) == PyDict([id |-> id, viewCount |-> views])

PostNoViews(id) == PyDict([id |-> id])

NoIdObject == PyDict([x |-> 1])

\* Objects a reply of the model may carry.
ReplyObjects ==
  { NoIdObject,
    PyDict([post_types |-> PyStr("not-a-list")]),
    PostTypes(<<>>),
    PostTypes(<<CT_A>>),
    PostTypes(<<CT_A, CT_B, CT_C>>),
    PostTypes(<<CT_A, CT_NoIds>>),
    PostTypes(<<PyInt(7)>>),
    PostTypes(<<CT_NoIds, PyInt(7)>>) }

\* Replies of the model: an object alone or inside prose, prose alone, prose
\* with braces, null, an empty object, arrays.
Replies ==
  { <<ObjTok(d)>> : d \in ReplyObjects }
    \cup { <<WORD, SP, ObjTok(d), NL, WORD>> : d \in ReplyObjects }
    \cup { <<WORD>>, <<LB, WORD>>, <<WORD, LB, WORD, RB>>, <<NUL>>, <<LB, RB>>,
           <<LK, RK>>, <<LK, ObjTok(PostTypes(<<CT_A>>)), RK>>,
           <<LB, WORD, RB, SP, ObjTok(PostTypes(<<CT_A>>))>> }

\* Lines a user message may hold: posts, a post between blanks, an object
\* without id, a malformed line starting with '{', prose, a marker line,
\* an empty line.
MsgLines ==
  { <<ObjTok(Post(1, 10))>>, <<ObjTok(Post(2, 30))>>, <<ObjTok(PostNoViews(3))>>,
    <<SP, ObjTok(Post(1, 0)), SP>>, <<ObjTok(NoIdObject)>>, <<LB>>,
    <<WORD, LB>>, <<DOTS, ObjTok(Post(2, 30))>>, <<>> }

MaxLines == 2

RECURSIVE JoinLines(_)
JoinLines(lines) ==
  IF Len(lines) = 0 THEN <<>>
  ELSE IF Len(lines) = 1 THEN lines[1]
  ELSE lines[1] \o <<NL>> \o JoinLines(Tail(lines))

\* The message of the script (lines 72-89): braces and prose, no line is a
\* JSON object.
ScriptMsg == <<NL, NL, LB, NL, WORD, LB, NL, WORD, NL, RB, NL, RB, NL, NL>>

UserMsgs ==
  {ScriptMsg} \cup
  UNION { { JoinLines(ls) : ls \in [1..n -> MsgLines] } : n \in 1..MaxLines }

-----------------------------------------------------------------------------
(* The script *)

Init ==
  /\ pc = "call1"
  /\ user_msg \in UserMsgs
  /\ response = [bound |-> FALSE, content |-> <<>>]
  /\ processed_data = Unset
  /\ validated = "not called"
  /\ raw_posts = [bound |-> FALSE, v |-> <<>>]
  /\ payload = [bound |-> FALSE, v |-> build_payload(<<>>, <<>>)]
  /\ outcome = [kind |-> "none", json |-> FALSE]
  /\ xano_response = Unset
  /\ posted = 0
  /\ log = <<>>
  /\ calls = 0
  /\ fn = "idle"
  /\ arg = <<>>
  /\ res = <<>>

\* Lines 93-95: the first call returns a reply.
ModelCall1 ==
  /\ pc = "call1"
  /\ \E r \in Replies :
       response' = [bound |-> TRUE, content |-> r]
  /\ calls' = calls + 1
  /\ log' = Append(log, "reply")
  /\ pc' = "process1"
  /\ UNCHANGED <<user_msg, processed_data, validated, raw_posts, payload,
                 outcome, xano_response, posted, fnVars>>

\* Lines 93-97: the first call raises; the handler prints and `response`
\* stays unassigned.
ModelCall1Raises ==
  /\ pc = "call1"
  /\ calls' = calls + 1
  /\ log' = Append(log, "Error occurred")
  /\ pc' = "process1"
  /\ UNCHANGED <<user_msg, response, processed_data, validated, raw_posts,
                 payload, outcome, xano_response, posted, fnVars>>

\* Lines 124-126, outside any try: reading the unassigned `response` raises
\* NameError, which nothing catches, and the interpreter exits with a
\* traceback.
Process1 ==
  /\ pc = "process1"
  /\ IF ~response.bound
     THEN /\ pc' = "crashed"
          /\ log' = Append(log, "Traceback: NameError")
          /\ UNCHANGED processed_data
     ELSE LET r == process_response(response.content)
          IN /\ processed_data' = r.ret
             /\ log' = log \o r.out \o
                   (IF Truthy(r.ret) THEN <<"Successfully processed response">>
                    ELSE <<>>)
             /\ pc' = "call2"
  /\ UNCHANGED <<user_msg, response, validated, raw_posts, payload, outcome,
                 xano_response, posted, calls, fnVars>>

\* Lines 263-268: the second call returns a reply.
ModelCall2 ==
  /\ pc = "call2"
  /\ \E r \in Replies :
       response' = [bound |-> TRUE, content |-> r]
  /\ calls' = calls + 1
  /\ log' = Append(log, "DEBUG: Raw Response Object")
  /\ pc' = "process2"
  /\ UNCHANGED <<user_msg, processed_data, validated, raw_posts, payload,
                 outcome, xano_response, posted, fnVars>>

\* Lines 263, 290-293: the second call raises; the handler prints the error
\* and the trace and the script ends.
ModelCall2Raises ==
  /\ pc = "call2"
  /\ calls' = calls + 1
  /\ log' = log \o <<"Error occurred", "traceback">>
  /\ pc' = "end"
  /\ UNCHANGED <<user_msg, response, processed_data, validated, raw_posts,
                 payload, outcome, xano_response, posted, fnVars>>

\* Line 271.
Process2 ==
  /\ pc = "process2"
  /\ LET r == process_response(response.content)
     IN /\ processed_data' = r.ret
        /\ log' = log \o r.out
  /\ pc' = "validate"
  /\ UNCHANGED <<user_msg, response, validated, raw_posts, payload, outcome,
                 xano_response, posted, calls, fnVars>>

\* Validate with the call of validate_response left out.
Validate_unchecked ==
  /\ pc = "validate"
  /\ IF ~Truthy(processed_data)
     THEN /\ log' = Append(log, "Invalid response format")
          /\ pc' = "end"
     ELSE /\ log' = log
          /\ pc' = "scan"
  /\ UNCHANGED <<user_msg, response, processed_data, validated, raw_posts,
                 payload, outcome, xano_response, posted, calls, fnVars>>

\* Lines 273, 287-288, 290-293: `processed_data and validate_response(...)`.
Validate ==
  /\ pc = "validate"
  /\ IF ~Truthy(processed_data)
     THEN /\ validated' = validated
          /\ log' = Append(log, "Invalid response format")
          /\ pc' = "end"
     ELSE LET r == validate_response(processed_data)
          IN /\ validated' = r.ret
             /\ CASE r.ret = "True" -> log' = log /\ pc' = "scan"
                  [] r.ret = "False" ->
                       /\ log' = log \o <<r.out, "Invalid response format">>
                       /\ pc' = "end"
                  [] OTHER ->
                       /\ log' = log \o <<"Error occurred", "traceback">>
                       /\ pc' = "end"
  /\ UNCHANGED <<user_msg, response, processed_data, raw_posts, payload,
                 outcome, xano_response, posted, calls, fnVars>>

\* ScanPosts with the test of line 277 inverted.
ScanPosts_inverted ==
  /\ pc = "scan"
  /\ LET posts == parse_raw_posts(user_msg)
     IN /\ raw_posts' = [bound |-> TRUE, v |-> posts]
        /\ IF posts = <<>>
           THEN log' = log /\ pc' = "send"
           ELSE /\ log' = Append(log, "No valid posts were parsed from the input")
                /\ pc' = "end"
  /\ UNCHANGED <<user_msg, response, processed_data, validated, payload,
                 outcome, xano_response, posted, calls, fnVars>>

\* Lines 275-277, 285-286.
ScanPosts ==
  /\ pc = "scan"
  /\ LET posts == parse_raw_posts(user_msg)
     IN /\ raw_posts' = [bound |-> TRUE, v |-> posts]
        /\ IF posts # <<>>
           THEN log' = log /\ pc' = "send"
           ELSE /\ log' = Append(log, "No valid posts were parsed from the input")
                /\ pc' = "end"
  /\ UNCHANGED <<user_msg, response, processed_data, validated, payload,
                 outcome, xano_response, posted, calls, fnVars>>

\* Lines 279, 187-207: send_to_xano up to the payload.
SendBuild ==
  /\ pc = "send"
  /\ payload' = [bound |-> TRUE,
                 v |-> build_payload(get_post_types(processed_data), raw_posts.v)]
  /\ log' = log \o <<"Processing valid posts", "DEBUG: Payload to XANO">>
  /\ pc' = "post"
  /\ UNCHANGED <<user_msg, response, processed_data, validated, raw_posts,
                 outcome, xano_response, posted, calls, fnVars>>

\* Lines 209-222 and 279-284: the POST, the value send_to_xano returns and
\* the caller's report; an exception leaving send_to_xano reaches line 290.
SendPost ==
  /\ pc = "post"
  /\ \E o \in HttpOutcomes :
       LET r == post_result(o)
       IN /\ outcome' = o
          /\ IF r.raised
             THEN /\ xano_response' = xano_response
                  /\ log' = log \o r.out \o <<"Error occurred", "traceback">>
             ELSE /\ xano_response' = PyBool(r.ret)
                  /\ log' = log \o r.out \o
                       <<IF r.ret
                         THEN "Data successfully processed and sent to XANO"
                         ELSE "Failed to send data to XANO">>
  /\ posted' = posted + 1
  /\ pc' = "end"
  /\ UNCHANGED <<user_msg, response, processed_data, validated, raw_posts,
                 payload, calls, fnVars>>

Next ==
  \/ ModelCall1
  \/ ModelCall1Raises
  \/ Process1
  \/ ModelCall2
  \/ ModelCall2Raises
  \/ Process2
  \/ Validate
  \/ ScanPosts
  \/ SendBuild
  \/ SendPost

Spec == Init /\ [][Next]_vars

-----------------------------------------------------------------------------
(* The functions applied in isolation to bounded inputs *)

SeqsUpTo(S, n) == UNION { [1..k -> S] : k \in 0..n }

MaxTextLen == 4

MaxTypes == 3

MaxPosts == 3

MaxId == 2

MaxCatalog == 2

\* Two objects a text may embed.
TextObjects == {PostTypes(<<CT_A>>), NoIdObject}

TextTokens == {LB, RB, LK, RK, NUL, WORD, SP} \cup {ObjTok(d) : d \in TextObjects}

Texts == SeqsUpTo(TextTokens, MaxTextLen)

\* Elements of a post_types list: well-formed entries, entries lacking one
\* or two required keys, an empty mapping, and values that are no mapping.
PostTypeElements ==
  {CT_A, CT_B, CT_NoIds, CT_NameOnly, EmptyDict, PyInt(7), PyStr("x"), PyNone}

ParsedValues ==
  { PyNone, PyInt(1), PyStr("x"), PyList(<<>>), PyList(<<CT_A>>), EmptyDict,
    NoIdObject, PyDict([post_types |-> PyStr("not-a-list")]),
    PyDict([post_types |-> PyNone]), PyDict([post_types |-> CT_A]) }
    \cup { PostTypes(items) : items \in SeqsUpTo(PostTypeElements, MaxTypes) }

ViewCounts == {0, 10, 20, 30}

\* Posts of the metrics functions: with or without viewCount, and two posts
\* that carry nb_views (one of them beside viewCount).
MetricPosts ==
  { Post(i, n) : i \in 1..MaxId, n \in ViewCounts }
    \cup { PostNoViews(i) : i \in 1..MaxId }
    \cup { PyDict([id |-> 1, nb_views |-> 10]),
           PyDict([id |-> 1, nb_views |-> 30, viewCount |-> 20]) }

\* Id lists: the first k ids, and a list naming an id twice.
IdLists == { [i \in 1..k |-> i] : k \in 0..MaxId } \cup { <<1, 1>> }

SenderTypes == {CT_A, CT_B, CT_C}

SenderPosts == {Post(1, 10), Post(2, 30), Post(3, 0), PostNoViews(1)}

FnInit ==
  /\ pc = "call1"
  /\ user_msg = ScriptMsg
  /\ response = [bound |-> FALSE, content |-> <<>>]
  /\ processed_data = Unset
  /\ validated = "not called"
  /\ raw_posts = [bound |-> FALSE, v |-> <<>>]
  /\ payload = [bound |-> FALSE, v |-> build_payload(<<>>, <<>>)]
  /\ outcome = [kind |-> "none", json |-> FALSE]
  /\ xano_response = Unset
  /\ posted = 0
  /\ log = <<>>
  /\ calls = 0
  /\ fn = "idle"
  /\ arg = <<>>
  /\ res = <<>>

ApplyProcessResponse ==
  /\ fn = "idle"
  /\ \E text \in Texts :
       /\ arg' = [text |-> text]
       /\ res' = process_response(text)
  /\ fn' = "process_response"
  /\ UNCHANGED pipeVars

ApplyValidateResponse ==
  /\ fn = "idle"
  /\ \E data \in ParsedValues :
       /\ arg' = [data |-> data]
       /\ res' = validate_response(data)
  /\ fn' = "validate_response"
  /\ UNCHANGED pipeVars

\* calculate_average_views and calculate_outlier_score, as send_to_xano
\* calls them for one slot.
ApplyViewMetrics ==
  /\ fn = "idle"
  /\ \E posts \in SeqsUpTo(MetricPosts, MaxPosts), ids \in IdLists :
       /\ arg' = [posts |-> posts, post_ids |-> ids]
       /\ res' = [avg |-> calculate_average_views(posts, ids),
                  outlier |-> calculate_outlier_score(posts, ids)]
  /\ fn' = "view_metrics"
  /\ UNCHANGED pipeVars

ApplyCalculateMetrics ==
  /\ fn = "idle"
  /\ \E posts \in SeqsUpTo(MetricPosts, MaxPosts), ids \in IdLists :
       /\ arg' = [posts |-> posts, post_ids |-> ids]
       /\ res' = calculate_metrics(posts, ids)
  /\ fn' = "calculate_metrics"
  /\ UNCHANGED pipeVars

ApplyBuildPayload ==
  /\ fn = "idle"
  /\ \E cts \in SeqsUpTo(SenderTypes, MaxTypes),
        posts \in SeqsUpTo(SenderPosts, MaxCatalog) :
       /\ arg' = [content_types |-> cts, posts |-> posts]
       /\ res' = build_payload(get_post_types(PostTypes(cts)), posts)
  /\ fn' = "build_payload"
  /\ UNCHANGED pipeVars

FnNext ==
  \/ ApplyProcessResponse
  \/ ApplyValidateResponse
  \/ ApplyViewMetrics
  \/ ApplyCalculateMetrics
  \/ ApplyBuildPayload

FnSpec == FnInit /\ [][FnNext]_vars

-----------------------------------------------------------------------------
(* Claims about the script *)

Last(s) == s[Len(s)]

Contains(s, x) == \E i \in 1..Len(s) : s[i] = x

\* The main block has parsed the reply it holds and the parse gave a value.
MainParsed ==
  /\ response.bound
  /\ processed_data = process_response(response.content).ret
  /\ processed_data # PyNone

C1_Order ==
  /\ (posted > 0 \/ pc = "post" \/ payload.bound) =>
        (MainParsed /\ validated = "True" /\ raw_posts.bound)
  /\ raw_posts.bound => (MainParsed /\ validated = "True")
  /\ validated # "not called" => MainParsed

C1_Halts ==
  /\ (pc = "validate" /\ processed_data = PyNone) =>
        /\ pc' = "end"
        /\ validated' = "not called"
        /\ Last(log') = "Invalid response format"
        /\ UNCHANGED <<raw_posts, payload, outcome, posted>>
  /\ (pc = "validate" /\ validated' = "False") =>
        /\ pc' = "end"
        /\ Last(log') = "Invalid response format"
        /\ UNCHANGED <<raw_posts, payload, outcome, posted>>
  /\ (pc = "validate" /\ validated' = "raise") =>
        /\ pc' = "end"
        /\ Last(log') = "traceback"
        /\ UNCHANGED <<raw_posts, payload, outcome, posted>>

C2_NoUncaughtException == pc # "crashed"

\* C3: the model is invoked once in a run, and not again after
\* process_response returned None.
C3_SingleInvocation ==
  /\ [](calls <= 1)
  /\ [][(pc = "call2" /\ processed_data = PyNone
            /\ Contains(log, "Error parsing response")) => calls' = calls]_vars

C9_AlwaysPosts ==
  (pc = "end" /\ validated = "True") =>
    (raw_posts.bound /\ payload.bound /\ posted = 1)

\* C9, amended: once the reply is parsed and accepted the run scans the
\* posts; with a catalog that is not empty it builds the payload and posts
\* exactly once, ending with the report of a sent or a failed POST; with an
\* empty catalog it prints "No valid posts were parsed from the input" and
\* ends without building a payload or posting.
C9_PostsWhenCatalogNotEmpty ==
  /\ posted <= 1
  /\ (pc = "end" /\ validated = "True") =>
       /\ raw_posts.bound
       /\ raw_posts.v = parse_raw_posts(user_msg)
       /\ IF raw_posts.v # <<>>
          THEN /\ payload.bound
               /\ posted = 1
               /\ xano_response \in {PyBool(TRUE), PyBool(FALSE)}
               /\ Last(log) \in {"Data successfully processed and sent to XANO",
                                 "Failed to send data to XANO"}
          ELSE /\ ~payload.bound
               /\ posted = 0
               /\ Last(log) = "No valid posts were parsed from the input"

\* A validated reply with zero content types, posted once.
C9_Witness ==
  /\ pc = "end"
  /\ validated = "True"
  /\ get_post_types(processed_data) = <<>>
  /\ posted = 1

-----------------------------------------------------------------------------
(* Claims about the functions *)

PayloadKeys ==
  {"content_type_1_name", "content_type_1_description",
   "content_type_1_av_views", "content_type_1_outlier_score",
   "content_type_2_name", "content_type_2_description",
   "content_type_2_av_views", "content_type_2_outlier_score"}

\* What slot k of the payload must hold for the list cts and the catalog.
SlotOf(cts, posts, k) ==
  IF Len(cts) >= k
  THEN [name |-> cts[k].v.content_type,
        description |-> cts[k].v.content_type_description,
        av_views |-> calculate_average_views(posts, cts[k].v.post_ids),
        outlier_score |-> calculate_outlier_score(posts, cts[k].v.post_ids)]
  ELSE [name |-> "", description |-> "", av_views |-> Zero,
        outlier_score |-> Zero]

FirstTwo(cts) == SubSeq(cts, 1, IF Len(cts) < 2 THEN Len(cts) ELSE 2)

\* C5: for a content-type list of any length the payload has exactly the
\* eight keys, slot 1 filled from index 0 and slot 2 from index 1, an absent
\* index giving "", "" and zero metrics; entries from index 2 on change
\* nothing: every list with the same first two entries gives this payload.
C5_TwoSlotPayload ==
  fn = "build_payload" =>
    LET cts == arg.content_types
        s1 == SlotOf(cts, arg.posts, 1)
        s2 == SlotOf(cts, arg.posts, 2)
    IN /\ DOMAIN res = PayloadKeys
       /\ res.content_type_1_name = s1.name
       /\ res.content_type_1_description = s1.description
       /\ res.content_type_1_av_views = s1.av_views
       /\ res.content_type_1_outlier_score = s1.outlier_score
       /\ res.content_type_2_name = s2.name
       /\ res.content_type_2_description = s2.description
       /\ res.content_type_2_av_views = s2.av_views
       /\ res.content_type_2_outlier_score = s2.outlier_score
       /\ \A other \in SeqsUpTo(SenderTypes, MaxTypes) :
            FirstTwo(other) = FirstTwo(cts) =>
              build_payload(other, arg.posts) = res

\* Three content types: the payload holds the first two and not the third.
C5_Witness ==
  /\ fn = "build_payload"
  /\ Len(arg.content_types) = 3
  /\ arg.content_types[3] # arg.content_types[2]
  /\ res.content_type_2_name = arg.content_types[2].v.content_type
  /\ res.content_type_2_av_views # Zero

\* The message of the first rule of validate_response that data violates,
\* "" when it violates none.  An element that is no mapping violates rule 4.
WellFormedEntry(e) == IsDict(e) /\ required_keys \subseteq DOMAIN e.v

FirstViolation(data) ==
  IF ~IsDict(data) THEN "Response is not a dictionary"
  ELSE IF ~HasKey(data, "post_types") THEN "Response missing 'post_types' key"
  ELSE IF ~IsList(data.v.post_types) THEN "'post_types' is not a list"
  ELSE IF \E i \in 1..Len(data.v.post_types.v) :
            ~WellFormedEntry(data.v.post_types.v[i])
       THEN "Post type missing required keys"
       ELSE ""

\* C6: validate_response returns ok or fail for every parsed value, never
\* raising; it prints the first violated rule, in the order not-an-object,
\* missing post_types, post_types not a list, element missing a required
\* key, and returns ok exactly when no rule is violated.
C6_TotalFailFast ==
  fn = "validate_response" =>
    /\ res.ret \in {"True", "False"}
    /\ res.out = FirstViolation(arg.data)
    /\ (res.ret = "True") <=> (FirstViolation(arg.data) = "")

\* Indices of the posts whose id is in the id list.
Matches(posts, ids) ==
  {i \in 1..Len(posts) : \E j \in 1..Len(ids) : ids[j] = posts[i].v.id}

\* viewCount of a post, 0 when it has none.
ViewsOf(p) == IF "viewCount" \in DOMAIN p.v THEN p.v.viewCount ELSE 0

RECURSIVE SumViews(_, _)
SumViews(posts, S) ==
  IF S = {} THEN 0
  ELSE LET i == CHOOSE x \in S : TRUE
       IN ViewsOf(posts[i]) + SumViews(posts, S \ {i})

MaxViews(posts, S) ==
  CHOOSE m \in {ViewsOf(posts[i]) : i \in S} :
    \A i \in S : ViewsOf(posts[i]) <= m

\* The fraction q equals n / d.
Equals(q, n, d) == q.num * d = n * q.den

\* C7 as stated: the metrics of an id list are (0, 0) exactly when no post
\* has an id in the list.
C7_ZeroIffNoMatch ==
  fn = "view_metrics" =>
    ((res.avg = Zero /\ res.outlier = Zero)
       <=> Matches(arg.posts, arg.post_ids) = {})

\* C7, amended: the metrics of an id list, as calculate_average_views and
\* calculate_outlier_score compute them, are (0, 0) exactly when every
\* matching post has viewCount 0 or none; this includes the case that no
\* post matches.
C7_ZeroIffNoViews ==
  fn = "view_metrics" =>
    ((res.avg = Zero /\ res.outlier = Zero)
       <=> \A i \in Matches(arg.posts, arg.post_ids) : ViewsOf(arg.posts[i]) = 0)

\* Matching posts, all without views: the metrics are (0, 0).
C7_Witness ==
  /\ fn = "view_metrics"
  /\ Cardinality(Matches(arg.posts, arg.post_ids)) >= 2
  /\ res.avg = Zero
  /\ res.outlier = Zero

\* The metrics of the matching posts as the claim gives them: avg the mean of
\* their viewCounts and outlier (max - avg) / avg when avg > 0, else 0.
MetricsAsClaimed(posts, ids, avg, outlier) ==
  LET M == Matches(posts, ids)
      total == SumViews(posts, M)
      n == Cardinality(M)
  IN /\ Equals(avg, total, n)
     /\ IF total > 0
        THEN Equals(outlier, MaxViews(posts, M) * n - total, total)
        ELSE outlier = Zero

\* The part of C10 that concerns the two functions send_to_xano calls.
ViewMetricsAsClaimed ==
  (fn = "view_metrics" /\ Matches(arg.posts, arg.post_ids) # {}) =>
    MetricsAsClaimed(arg.posts, arg.post_ids, res.avg, res.outlier)

\* C10: with at least one matching post, the metrics computation takes the
\* viewCount of each matching post (0 when it has none, never an error, a
\* post counted as often as it occurs) and returns their mean and
\* (max - avg) / avg when avg > 0, else 0.
C10_MetricsOfViewCounts ==
  /\ ViewMetricsAsClaimed
  /\ (fn = "calculate_metrics" /\ Matches(arg.posts, arg.post_ids) # {}) =>
       /\ ~res.raised
       /\ MetricsAsClaimed(arg.posts, arg.post_ids, res.avg, res.outlier)

\* The examples of the claim: views 10, 10, 10 give (10, 0) and views
\* 10, 20, 30 give (20, 1/2).
ViewMetricsExamples ==
  fn = "view_metrics" =>
    LET views == [i \in 1..Len(arg.posts) |-> ViewsOf(arg.posts[i])]
    IN /\ (views = <<10, 10, 10>> /\ Cardinality(Matches(arg.posts, arg.post_ids)) = 3)
            => (res.avg = [num |-> 10, den |-> 1] /\ res.outlier = Zero)
       /\ (views = <<10, 20, 30>> /\ Cardinality(Matches(arg.posts, arg.post_ids)) = 3)
            => (res.avg = [num |-> 20, den |-> 1]
                /\ res.outlier = [num |-> 1, den |-> 2])

NoBrace(s) == \A i \in 1..Len(s) : ~HasOpen(s[i]) /\ ~HasClose(s[i])

Blank(s) == \A i \in 1..Len(s) : IsSpace(s[i])

\* Text that is not JSON and holds no JSON object: no obj token, no "{"
\* closed by a "}" with only blanks between.
Prose(s) ==
  /\ ~json_loads(s).ok
  /\ \A i \in 1..Len(s) : s[i].c # "obj"
  /\ \A i, j \in 1..Len(s) :
       (i < j /\ s[i].c = "{" /\ s[j].c = "}") =>
         ~Blank(SubSeq(s, i + 1, j - 1))

Before(text, i) == SubSeq(text, 1, i - 1)

After(text, i) == SubSeq(text, i + 1, Len(text))

\* Neither the whole text nor the part from its first '{' to its last '}'
\* parses as JSON.
NothingParses(text) ==
  /\ ~json_loads(text).ok
  /\ ~(re_search_braces(text).found /\ json_loads(re_search_braces(text).group).ok)

\* C8 as stated: for a text made of one JSON object between a prefix and a
\* suffix of non-JSON text, process_response returns the object; and it
\* returns None only when neither the whole text nor the part from the first
\* '{' to the last '}' parses.
C8_RecoversEmbeddedObject ==
  fn = "process_response" =>
    /\ \A i \in 1..Len(arg.text) :
         (arg.text[i].c = "obj" /\ Prose(Before(arg.text, i))
            /\ Prose(After(arg.text, i)))
           => res.ret = arg.text[i].b
    /\ res.ret = PyNone => NothingParses(arg.text)

\* C8, amended: for a text made of one JSON object between a prefix and a
\* suffix that hold no '{' and no '}', where the whole text is not valid
\* JSON unless prefix and suffix are blank, process_response returns the
\* object; and it returns None only when neither the whole text nor the part
\* from the first '{' to the last '}' parses, or when the whole text is the
\* JSON value null.
C8_RecoversWhenProseHasNoBrace ==
  fn = "process_response" =>
    /\ \A i \in 1..Len(arg.text) :
         (arg.text[i].c = "obj" /\ NoBrace(Before(arg.text, i))
            /\ NoBrace(After(arg.text, i))
            /\ (~json_loads(arg.text).ok
                  \/ (Blank(Before(arg.text, i)) /\ Blank(After(arg.text, i)))))
           => res.ret = arg.text[i].b
    /\ res.ret = PyNone =>
         (NothingParses(arg.text) \/ json_loads(arg.text) = [ok |-> TRUE, val |-> PyNone])

\* An object between two words, found by the brace search after the whole
\* text failed to parse.
C8_Witness ==
  /\ fn = "process_response"
  /\ Len(arg.text) = 3
  /\ arg.text[1] = WORD /\ arg.text[2].c = "obj" /\ arg.text[3] = WORD
  /\ res.ret = arg.text[2].b
  /\ Contains(res.out, "Error parsing response")

====
